---- MODULE Spec2Model ----
(***************************************************************************)
(* State-machine model of the WebAuthn passkey demo: the SQLite store of   *)
(* src/lib/database-server (users, passkeys, webauthn_sessions), the       *)
(* ceremony functions of src/lib/webauthn.ts and the API routes that call  *)
(* them.  Every route handler is an operator from the store and a request  *)
(* to the store it leaves and the response it sends, and one action that   *)
(* applies it; requests are handled one at a time in the specification     *)
(* Spec.                                                                   *)
(*                                                                         *)
(* The @simplewebauthn/server library is outside the repository; it is     *)
(* modelled by its contract: verifyRegistrationResponse and                *)
(* verifyAuthenticationResponse throw on a challenge, origin or RP-ID      *)
(* mismatch (and, for authentication, on a counter that did not increase), *)
(* and return verified = false on an invalid attestation / signature.      *)
(***************************************************************************)
EXTENDS Integers, Sequences, FiniteSets, TLC

(* ------------------------------ bounds -------------------------------- *)

\* Number of session ids generateSessionId() hands out in a run.
MaxSessions == 2
\* Number of challenges the options generators hand out in a run.
MaxChallenges == 2
\* Number of rows ever inserted into the passkeys table (AUTOINCREMENT ids).
MaxPasskeys == 2
\* Largest signature counter an authenticator reports.
MaxCounter == 2
\* Number of times the clock advances in a run.
MaxTicks == 1
\* Number of ceremony calls started in a run of SpecOverlap.
MaxCalls == 3
\* Number of session rows ever inserted when ceremony calls create login sessions.
MaxCallSessions == 3

(* ------------------------- program constants -------------------------- *)

\* Time is counted in units of five minutes.
\* Registration challenge lifetime: 5 * 60 * 1000 ms.
RegTTL == 1
\* Login session lifetime: 24 * 60 * 60 * 1000 ms.
LoginTTL == 288
\* Length of a calendar day (the date part of a timestamp changes).
DayLen == 288

ORIGIN == "http://localhost:3200"
RP_ID == "localhost"
BadOrigin == "http://evil.example"
BadRpId == "evil.example"

\* Rows of the users table as the store holds them: id = position.
\* (Account creation is not among the routes modelled; the database file
\* persists across restarts, so the process starts with these rows.)
Usernames == <<"alice", "bob">>
UserIds == DOMAIN Usernames
UnknownUsername == "mallory"

\* Credential ids (base64url strings) authenticators present.
CredIds == {"credA", "credB"}

Null == <<>>
NoCookie == <<>>
NoChallenge == <<>>
NoUsername == ""
NoList == {"undefined"}
Undefined == <<"undefined">>

(* ------------------------------ state --------------------------------- *)

VARIABLES
  passkeys,        \* rows of table passkeys
  sessions,        \* rows of table webauthn_sessions
  nextPasskeyId,   \* AUTOINCREMENT sequence of passkeys.id
  nextSession,     \* number of session ids generated so far
  nextChallenge,   \* number of challenges generated so far
  now,             \* the clock, in units of five minutes
  consumed,        \* history: <<cookie, challenge>> of the challenge rows that
                   \* register/verify deleted after a verification attempt
  evaluated,       \* history: the challenges against which authenticate/verify
                   \* has had an assertion verified (kept in SpecAuthHistory)
  debugLogs,       \* webauthnDebugger.logs, the buffer all ceremony calls share
  calls            \* the ceremony calls in flight (used in SpecOverlap)

vars == <<passkeys, sessions, nextPasskeyId, nextSession, nextChallenge, now, consumed,
          evaluated, debugLogs, calls>>

\* The sequential specification Spec handles one request at a time. Every
\* ceremony function starts with clearLogs(), so what the shared buffer holds
\* between two requests is never read: Spec leaves the buffer, the calls in
\* flight and the authentication history out of account.
untracked == <<evaluated, debugLogs, calls>>

(* ----------------------------- timestamps ----------------------------- *)

\* new Date(t).toISOString(): "YYYY-MM-DDTHH:MM:SS.sssZ", as
\* <<date, code of the separator 'T', time of day>>.
toISOString(t) == <<t \div DayLen, 84, t % DayLen>>

\* SQLite CURRENT_TIMESTAMP: "YYYY-MM-DD HH:MM:SS", as
\* <<date, code of the separator ' ', time of day>>.
CURRENT_TIMESTAMP == <<now \div DayLen, 32, now % DayLen>>

\* SQLite compares the two TEXT values byte by byte.
TextGreater(a, b) ==
  \/ a[1] > b[1]
  \/ a[1] = b[1] /\ a[2] > b[2]
  \/ a[1] = b[1] /\ a[2] = b[2] /\ a[3] > b[3]

(* --------------------------- session keys ----------------------------- *)

\* A session id is <<number of "challenge-" prefixes, uuid number>>.
SessionKey(n) == <<0, n>>
ChallengeKey(sessionId) == <<sessionId[1] + 1, sessionId[2]>>

Cookies == {NoCookie} \cup {SessionKey(n) : n \in 1..MaxSessions}

Challenge(k) == <<"challenge", k>>
PasswordLogin == <<"password-login", 0>>
PasskeyLogin == <<"passkey-login", 0>>

(* --------------------------- dbQueries -------------------------------- *)

\* getUserByUsername: the set of matching user ids (empty or one).
getUserByUsername(username) == {u \in UserIds : Usernames[u] = username}

\* getPasskeysByUserId
getPasskeysOfAllUsers(userId) == passkeys

getPasskeysByUserId(userId) == {p \in passkeys : p.user_id = userId}

\* getPasskeyByCredentialId (JOIN users): the set of matching rows.
getPasskeyByCredentialId(credentialId) ==
  {p \in passkeys : p.credential_id = credentialId /\ p.user_id \in UserIds}

\* createPasskey: the INSERT fails when credential_id is already present.
createPasskeyNeverFails(credentialId) == FALSE
createPasskeyFails(credentialId) ==
  \E p \in passkeys : p.credential_id = credentialId

createPasskeyForNobody(userId, credentialId, counter, transports) ==
  passkeys \cup {[id |-> nextPasskeyId + 1, user_id |-> 0,
                  credential_id |-> credentialId, counter |-> counter,
                  transports |-> transports, last_used_at |-> Null]}

createPasskey(userId, credentialId, counter, transports) ==
  passkeys \cup {[id |-> nextPasskeyId + 1, user_id |-> userId,
                  credential_id |-> credentialId, counter |-> counter,
                  transports |-> transports, last_used_at |-> Null]}

\* updatePasskeyCounter
updatePasskeyCounterKeepsCounter(counter, credentialId) ==
  {IF p.credential_id = credentialId
     THEN [p EXCEPT !.last_used_at = CURRENT_TIMESTAMP]
     ELSE p : p \in passkeys}

updatePasskeyCounter(counter, credentialId) ==
  {IF p.credential_id = credentialId
     THEN [p EXCEPT !.counter = counter, !.last_used_at = CURRENT_TIMESTAMP]
     ELSE p : p \in passkeys}

\* deletePasskey
deletePasskeyOfAnyUser(id, userId) == {p \in passkeys : p.id # id}

deletePasskey(id, userId) ==
  {p \in passkeys : ~(p.id = id /\ p.user_id = userId)}

\* createSession: the INSERT fails when the primary key id is already present.
createSessionFails(id) == \E s \in sessions : s.id = id

createSession(id, userId, challenge, expiresAt) ==
  sessions \cup {[id |-> id, user_id |-> userId, challenge |-> challenge,
                  expires_at |-> expiresAt]}

\* getSession (JOIN users): rows with that id whose expires_at > CURRENT_TIMESTAMP.
getSession(id) ==
  {s \in sessions : /\ s.id = id
                    /\ s.user_id \in UserIds
                    /\ TextGreater(s.expires_at, CURRENT_TIMESTAMP)}

\* deleteSession
deleteSession(id) == {s \in sessions : s.id # id}

\* cleanupExpiredSessions: expires_at <= CURRENT_TIMESTAMP
cleanupExpiredSessions ==
  {s \in sessions : TextGreater(s.expires_at, CURRENT_TIMESTAMP)}

(* ---------------------------- responses ------------------------------- *)

\* A response (op names the route).
NoResponse ==
  [op |-> "none", status |-> 0, verified |-> FALSE, credentialId |-> "",
   userId |-> 0, username |-> "", challenge |-> NoChallenge, allow |-> NoList,
   exclude |-> {},
   details |-> ""]

Reply(op, status, details) ==
  [NoResponse EXCEPT !.op = op, !.status = status, !.details = details]

\* What a handler leaves behind: the tables and the response.
Outcome(pk, ss, response) == [passkeys |-> pk, sessions |-> ss, response |-> response]

Unchanged(response) == Outcome(passkeys, sessions, response)

(* -------------------------- calls in flight --------------------------- *)

\* Ceremony calls are numbered in the order in which they start. A call
\* record holds where the call stands (idle, awaiting the library, done), the
\* route it serves, its request, the user of its session, the calls that were
\* awaiting when it started, the log entries it appended itself, and its
\* answer (status, verified, debugLogs).
Calls == 1..MaxCalls

IdleCall ==
  [pc |-> "idle", op |-> "none", req |-> <<>>, userId |-> 0, counter |-> 0,
   peers |-> {}, own |-> <<>>, status |-> 0, verified |-> FALSE, returned |-> <<>>]

(* ------------------------------- Init --------------------------------- *)

Init ==
  /\ passkeys = {}
  /\ sessions = {}
  /\ nextPasskeyId = 0
  /\ nextSession = 0
  /\ nextChallenge = 0
  /\ now = 0
  /\ consumed = {}
  /\ evaluated = {}
  /\ debugLogs = <<>>
  /\ calls = [c \in Calls |-> IdleCall]

(* ------------------------------ clock --------------------------------- *)

TickSteps == {RegTTL, DayLen}

\* Number of clock advances so far (each adds five minutes or one day).
Ticks == (now \div DayLen) + (now % DayLen)

Tick ==
  /\ Ticks < MaxTicks
  /\ \E d \in TickSteps : now' = now + d
  /\ UNCHANGED <<passkeys, sessions, nextPasskeyId, nextSession, nextChallenge, consumed, untracked>>

\* Process start: the module runs cleanupExpiredSessions once.
Startup ==
  /\ sessions' = cleanupExpiredSessions
  /\ UNCHANGED <<passkeys, nextPasskeyId, nextSession, nextChallenge, now, consumed, untracked>>

(* --------------------------- auth/login ------------------------------- *)

LoginRequests ==
  [username : {Usernames[u] : u \in UserIds} \cup {UnknownUsername},
   passwordOk : BOOLEAN]

LoginOutcome(req) ==
  LET user == getUserByUsername(req.username)
  IN IF user = {} \/ ~req.passwordOk
       THEN Unchanged(Reply("login", 401, "Invalid username or password"))
       ELSE LET u == CHOOSE x \in user : TRUE
            IN Outcome(passkeys,
                       createSession(SessionKey(nextSession + 1), u, PasswordLogin,
                                     toISOString(now + LoginTTL)),
                       [Reply("login", 200, "Login successful") EXCEPT !.userId = u])

Login ==
  \E req \in LoginRequests :
    LET out == LoginOutcome(req)
    IN /\ out.response.status = 200 => nextSession < MaxSessions
       /\ sessions' = out.sessions
       /\ nextSession' = IF out.response.status = 200 THEN nextSession + 1 ELSE nextSession
       /\ UNCHANGED <<passkeys, nextPasskeyId, nextChallenge, now, consumed, untracked>>

\* auth/logout
Logout ==
  \E cookie \in Cookies :
    /\ sessions' = IF cookie # NoCookie THEN deleteSession(cookie) ELSE sessions
    /\ UNCHANGED <<passkeys, nextPasskeyId, nextSession, nextChallenge, now, consumed, untracked>>

\* auth/session: the user of the session the cookie names, or no user
\* (userId 0) without a cookie or without a row that getSession returns.
SessionOutcome(cookie) ==
  IF cookie = NoCookie \/ getSession(cookie) = {}
    THEN Unchanged(Reply("session", 200, "user: null"))
    ELSE LET session == CHOOSE s \in getSession(cookie) : TRUE
         IN Unchanged([Reply("session", 200, "")
                         EXCEPT !.userId = session.user_id,
                                !.username = Usernames[session.user_id]])

SessionCheck ==
  \E cookie \in Cookies :
    LET out == SessionOutcome(cookie)
    IN /\ passkeys' = out.passkeys
       /\ sessions' = out.sessions
       /\ UNCHANGED <<nextPasskeyId, nextSession, nextChallenge, now, consumed, untracked>>

(* -------------------- passkeys/register/options ----------------------- *)

\* JSON.stringify of a transports list, and JSON.parse of the stored text.
JSONstringify(list) == <<"json", list>>
JSONparse(text) == text[2]

\* existingPasskeys.map(...): a descriptor (id, transports) per passkey row;
\* transports is parsed from the stored text, or undefined when it is NULL.
excludeCredentialsWithoutTransports(existingPasskeys) ==
  {[id |-> p.credential_id, transports |-> Undefined] : p \in existingPasskeys}

excludeCredentials(existingPasskeys) ==
  {[id |-> p.credential_id,
    transports |-> IF p.transports # Null THEN JSONparse(p.transports) ELSE Undefined] :
     p \in existingPasskeys}

\* A generator that stores the challenge it drew itself.
generatePasskeyRegistrationOptionsPersisting(userId, username) ==
  [challenge |-> Challenge(nextChallenge + 1),
   excludeCredentials |-> excludeCredentials(getPasskeysByUserId(userId)),
   passkeys |-> passkeys,
   sessions |-> sessions \cup {[id |-> ChallengeKey(SessionKey(userId)),
                                user_id |-> userId,
                                challenge |-> Challenge(nextChallenge + 1),
                                expires_at |-> toISOString(now + RegTTL)]}]

\* generatePasskeyRegistrationOptions: reads the user's passkeys for the
\* exclusion list and draws a fresh challenge; its only dbQueries call is
\* getPasskeysByUserId.all, so the tables it leaves (passkeys, sessions) are
\* the ones it found.
generatePasskeyRegistrationOptions(userId, username) ==
  [challenge |-> Challenge(nextChallenge + 1),
   excludeCredentials |-> excludeCredentials(getPasskeysByUserId(userId)),
   passkeys |-> passkeys,
   sessions |-> sessions]

RegisterOptionsRequests ==
  {[cookie |-> c, username |-> n] :
     c \in Cookies,
     n \in {NoUsername, UnknownUsername} \cup {Usernames[u] : u \in UserIds}}

\* The user_id the route stores in the challenge row: the session's user,
\* whatever username the request body names.
ChallengeOwnerByUsername(session, username) ==
  IF getUserByUsername(username) # {}
    THEN CHOOSE u \in getUserByUsername(username) : TRUE
    ELSE session.user_id

ChallengeOwner(session, username) == session.user_id

RegisterOptionsOutcome(req) ==
  IF req.cookie = NoCookie
    THEN Unchanged(Reply("register-options", 401, "Not authenticated"))
  ELSE IF getSession(req.cookie) = {}
    THEN Unchanged(Reply("register-options", 401, "Invalid session"))
  ELSE IF req.username = NoUsername
    THEN Unchanged(Reply("register-options", 400, "Username is required"))
  ELSE LET session == CHOOSE s \in getSession(req.cookie) : TRUE
           result == generatePasskeyRegistrationOptions(session.user_id, req.username)
       IN IF createSessionFails(ChallengeKey(req.cookie))
            THEN Outcome(result.passkeys, result.sessions,
                         Reply("register-options", 500,
                               "UNIQUE constraint failed: webauthn_sessions.id"))
            ELSE Outcome(result.passkeys,
                         result.sessions
                           \cup createSession(ChallengeKey(req.cookie),
                                              ChallengeOwner(session, req.username),
                                              result.challenge, toISOString(now + RegTTL)),
                         [Reply("register-options", 200, "")
                            EXCEPT !.challenge = result.challenge,
                                   !.exclude = result.excludeCredentials,
                                   !.userId = session.user_id])

\* Whether the handler reached the options generator (a challenge was drawn).
DrewChallenge(response) == response.status \in {200, 500}

RegisterOptions ==
  \E req \in RegisterOptionsRequests :
    LET out == RegisterOptionsOutcome(req)
    IN /\ DrewChallenge(out.response) => nextChallenge < MaxChallenges
       /\ sessions' = out.sessions
       /\ nextChallenge' = IF DrewChallenge(out.response) THEN nextChallenge + 1
                           ELSE nextChallenge
       /\ UNCHANGED <<passkeys, nextPasskeyId, nextSession, now, consumed, untracked>>

(* --------------------- passkeys/register/verify ----------------------- *)

\* body.response.transports as the authenticator holding the credential
\* reports it: a list for one credential, absent (undefined) for the other.
AuthenticatorTransports(id) == IF id = "credA" THEN <<"internal", "hybrid">> ELSE Undefined

\* The parts of a RegistrationResponseJSON (plus the top-level challenge the
\* client adds) that decide the outcome.
RegBody(challenge, id, clientChallenge, origin, rpId, attestationOk, counter) ==
  [challenge |-> challenge, id |-> id, clientChallenge |-> clientChallenge,
   origin |-> origin, rpId |-> rpId, attestationOk |-> attestationOk,
   counter |-> counter, transports |-> AuthenticatorTransports(id)]

\* A body the handler returns on before looking at anything but its challenge.
BareRegBody(challenge) ==
  RegBody(challenge, "credA", challenge, ORIGIN, RP_ID, TRUE, 0)

\* What a client may get wrong in the signed client data and attestation:
\* <<challenge echoed, origin, RP ID, attestation valid>>; nothing, one of
\* them, or the origin together with the challenge or with the attestation.
Defects ==
  {<<TRUE, ORIGIN, RP_ID, TRUE>>, <<FALSE, ORIGIN, RP_ID, TRUE>>,
   <<TRUE, BadOrigin, RP_ID, TRUE>>, <<TRUE, ORIGIN, BadRpId, TRUE>>,
   <<TRUE, ORIGIN, RP_ID, FALSE>>, <<TRUE, BadOrigin, RP_ID, FALSE>>,
   <<FALSE, BadOrigin, RP_ID, TRUE>>}

\* Bodies built on `challenge`.
RegBodies(challenge) ==
  {RegBody(challenge, id, IF d[1] THEN challenge ELSE Challenge(0), d[2], d[3], d[4], n) :
     id \in CredIds, d \in Defects, n \in 0..MaxCounter}

StoredChallenges(cookie) == {s.challenge : s \in getSession(ChallengeKey(cookie))}

\* The requests that differ in what the handler does with them: it reads the
\* body only for a live session, and more than the body's challenge only when
\* that challenge is the stored one.
RegisterVerifyRequests ==
  {[cookie |-> c, body |-> b] :
     c \in Cookies,
     b \in {BareRegBody(NoChallenge)}
           \cup {BareRegBody(Challenge(k)) : k \in 0..nextChallenge}} 
  \cup UNION {{[cookie |-> c, body |-> b] : b \in RegBodies(ch)} :
                <<c, ch>> \in {<<c, ch>> \in Cookies \X {Challenge(k) : k \in 1..nextChallenge} :
                                 /\ c # NoCookie
                                 /\ getSession(c) # {}
                                 /\ ch \in StoredChallenges(c)}}

\* The origins and RP IDs the ceremony functions tell the library to accept.
ExpectedOriginsWithForeign == {ORIGIN, BadOrigin}
ExpectedOrigins == {ORIGIN}
ExpectedRPIDs == {RP_ID}

\* @simplewebauthn/server verifyRegistrationResponse: throws on a challenge,
\* origin or RP-ID mismatch, else reports whether the attestation verifies.
verifyRegistrationResponse(body, expectedChallenge) ==
  IF body.clientChallenge # expectedChallenge
    THEN [threw |-> TRUE, verified |-> FALSE,
          error |-> "Unexpected registration response challenge"]
  ELSE IF body.origin \notin ExpectedOrigins
    THEN [threw |-> TRUE, verified |-> FALSE,
          error |-> "Unexpected registration response origin"]
  ELSE IF body.rpId \notin ExpectedRPIDs
    THEN [threw |-> TRUE, verified |-> FALSE, error |-> "Unexpected RP ID hash"]
  ELSE [threw |-> FALSE, verified |-> body.attestationOk, error |-> ""]

\* The credential id under which verifyPasskeyRegistration stores the
\* credential: the response's id field.
RegistrationCredentialIdReencoded(body) ==
  IF body.id = "credA" THEN "Y3JlZEE" ELSE "Y3JlZEI"
RegistrationCredentialId(body) == body.id

\* The transports text it stores: JSON of the reported list, or NULL.
RegistrationTransports(body) ==
  IF body.transports # Undefined THEN JSONstringify(body.transports) ELSE Null

\* The counter verifyPasskeyRegistration hands to createPasskey:
\* registrationInfo.credential.counter, the one the attestation reports.
RegistrationCounterZero(body) == 0
RegistrationCounter(body) == body.counter

\* Whether verifyPasskeyRegistration reaches dbQueries.createPasskey.run.
RegistrationStoresNever(verification) == FALSE
RegistrationStoresUnverified(verification) == ~verification.threw
RegistrationStores(verification) == ~verification.threw /\ verification.verified

\* verifyPasskeyRegistration: [threw, verified, credentialId, passkeys, error].
verifyPasskeyRegistration(body, expectedChallenge, userId) ==
  LET verification == verifyRegistrationResponse(body, expectedChallenge)
  IN IF verification.threw
       THEN [threw |-> TRUE, verified |-> FALSE, credentialId |-> "",
             passkeys |-> passkeys, error |-> verification.error]
     ELSE IF RegistrationStores(verification)
       THEN IF createPasskeyFails(RegistrationCredentialId(body))
              THEN [threw |-> TRUE, verified |-> FALSE, credentialId |-> "",
                    passkeys |-> passkeys,
                    error |-> "UNIQUE constraint failed: passkeys.credential_id"]
              ELSE [threw |-> FALSE, verified |-> verification.verified,
                    credentialId |-> IF verification.verified THEN body.id ELSE "",
                    passkeys |-> createPasskey(userId, RegistrationCredentialId(body),
                                               RegistrationCounter(body),
                                               RegistrationTransports(body)),
                    error |-> ""]
     ELSE [threw |-> FALSE, verified |-> verification.verified,
           credentialId |-> IF verification.verified THEN body.id ELSE "",
           passkeys |-> passkeys, error |-> ""]

\* What the route does with the challenge row once verifyPasskeyRegistration returned.
CleanUpChallengeSkipped(cookie) == sessions
CleanUpChallenge(cookie) == deleteSession(ChallengeKey(cookie))

RegisterVerifyOutcome(req) ==
  IF req.cookie = NoCookie
    THEN Unchanged(Reply("register-verify", 401, "Not authenticated"))
  ELSE IF getSession(req.cookie) = {}
    THEN Unchanged(Reply("register-verify", 401, "Invalid session"))
  ELSE IF req.body.challenge = NoChallenge
    THEN Unchanged(Reply("register-verify", 400, "Challenge is required"))
  ELSE IF req.body.challenge \notin StoredChallenges(req.cookie)
    THEN Unchanged(Reply("register-verify", 400, "Invalid challenge"))
  ELSE LET session == CHOOSE s \in getSession(req.cookie) : TRUE
           result == verifyPasskeyRegistration(req.body, req.body.challenge, session.user_id)
       IN IF result.threw
            THEN Unchanged(Reply("register-verify", 500, result.error))
            ELSE Outcome(result.passkeys, CleanUpChallenge(req.cookie),
                         [Reply("register-verify", 200, "")
                            EXCEPT !.verified = result.verified,
                                   !.credentialId = result.credentialId,
                                   !.userId = session.user_id])

RegisterVerifyWith(requests) ==
  \E req \in requests :
    LET out == RegisterVerifyOutcome(req)
    IN /\ out.passkeys # passkeys => nextPasskeyId < MaxPasskeys
       /\ passkeys' = out.passkeys
       /\ sessions' = out.sessions
       /\ nextPasskeyId' = IF out.passkeys # passkeys THEN nextPasskeyId + 1
                           ELSE nextPasskeyId
       /\ consumed' = IF out.response.status = 200
                       THEN consumed \cup {<<req.cookie, req.body.challenge>>}
                       ELSE consumed
       /\ UNCHANGED <<nextSession, nextChallenge, now, untracked>>

RegisterVerify == RegisterVerifyWith(RegisterVerifyRequests)

(* ------------------- passkeys/authenticate/options -------------------- *)

\* generatePasskeyAuthenticationOptions: allowCredentials is the list of the
\* named user's credential ids, or undefined when that list is empty.
generatePasskeyAuthenticationOptions(username) ==
  LET allowCredentials ==
        IF username # NoUsername
          THEN UNION {{p.credential_id : p \in getPasskeysByUserId(u)} :
                        u \in getUserByUsername(username)}
          ELSE {}
  IN [challenge |-> Challenge(nextChallenge + 1),
      allowCredentials |-> IF allowCredentials # {} THEN allowCredentials ELSE NoList,
      passkeys |-> passkeys,
      sessions |-> sessions]

AuthenticateOptionsRequests ==
  {Usernames[u] : u \in UserIds} \cup {UnknownUsername, NoUsername}

AuthenticateOptionsOutcome(username) ==
  LET result == generatePasskeyAuthenticationOptions(username)
  IN Outcome(result.passkeys, result.sessions,
             [Reply("authenticate-options", 200, "")
                EXCEPT !.challenge = result.challenge,
                       !.allow = result.allowCredentials])

AuthenticateOptions ==
  \E username \in AuthenticateOptionsRequests :
    LET out == AuthenticateOptionsOutcome(username)
    IN /\ nextChallenge < MaxChallenges
       /\ nextChallenge' = nextChallenge + 1
       /\ UNCHANGED <<passkeys, sessions, nextPasskeyId, nextSession, now, consumed, untracked>>

(* -------------------- passkeys/authenticate/verify -------------------- *)

\* The parts of an AuthenticationResponseJSON (plus the top-level challenge
\* the client adds) that decide the outcome.
AuthBody(challenge, id, clientChallenge, origin, rpId, signatureOk, counter) ==
  [challenge |-> challenge, id |-> id, clientChallenge |-> clientChallenge,
   origin |-> origin, rpId |-> rpId, signatureOk |-> signatureOk,
   counter |-> counter]

\* Challenges a client may send: one the server never issued, or the last
\* one it issued.
ClientChallenges == {Challenge(k) : k \in {0, nextChallenge}}

\* Bodies presenting credential `id`: every defect on the last issued
\* challenge, and a well-formed body on each challenge.
AuthBodies(id) ==
  {AuthBody(Challenge(nextChallenge), id,
            IF d[1] THEN Challenge(nextChallenge) ELSE Challenge(MaxChallenges + 1),
            d[2], d[3], d[4], n) : d \in Defects, n \in 0..MaxCounter}
  \cup {AuthBody(ch, id, ch, ORIGIN, RP_ID, TRUE, n) :
          ch \in ClientChallenges, n \in 0..MaxCounter}

\* The requests that differ in what the handler does with them: without a
\* challenge it returns at once, for an unknown credential id it throws
\* before anything else of the body is used.
AuthenticateVerifyRequests ==
  {AuthBody(NoChallenge, "credA", NoChallenge, ORIGIN, RP_ID, TRUE, 0)}
  \cup {AuthBody(Challenge(0), id, Challenge(0), ORIGIN, RP_ID, TRUE, 0) :
          id \in {i \in CredIds : getPasskeyByCredentialId(i) = {}}}
  \cup UNION {AuthBodies(id) : id \in {i \in CredIds : getPasskeyByCredentialId(i) # {}}}

\* A verifier that reports a counter that did not grow as an unverified
\* response instead of throwing.
verifyAuthenticationResponseQuiet(body, expectedChallenge, storedCounter) ==
  IF body.clientChallenge # expectedChallenge
    THEN [threw |-> TRUE, verified |-> FALSE, newCounter |-> 0,
          error |-> "Unexpected authentication response challenge"]
  ELSE IF body.origin \notin ExpectedOrigins
    THEN [threw |-> TRUE, verified |-> FALSE, newCounter |-> 0,
          error |-> "Unexpected authentication response origin"]
  ELSE IF body.rpId \notin ExpectedRPIDs
    THEN [threw |-> TRUE, verified |-> FALSE, newCounter |-> 0,
          error |-> "Unexpected RP ID hash"]
  ELSE [threw |-> FALSE,
        verified |-> /\ body.signatureOk
                     /\ ~((body.counter > 0 \/ storedCounter > 0)
                            /\ body.counter <= storedCounter),
        newCounter |-> body.counter, error |-> ""]

\* @simplewebauthn/server verifyAuthenticationResponse: throws on a
\* challenge, origin or RP-ID mismatch and on a counter that did not grow
\* (unless both counters are zero), else reports whether the signature
\* verifies under the stored public key.
verifyAuthenticationResponse(body, expectedChallenge, storedCounter) ==
  IF body.clientChallenge # expectedChallenge
    THEN [threw |-> TRUE, verified |-> FALSE, newCounter |-> 0,
          error |-> "Unexpected authentication response challenge"]
  ELSE IF body.origin \notin ExpectedOrigins
    THEN [threw |-> TRUE, verified |-> FALSE, newCounter |-> 0,
          error |-> "Unexpected authentication response origin"]
  ELSE IF body.rpId \notin ExpectedRPIDs
    THEN [threw |-> TRUE, verified |-> FALSE, newCounter |-> 0,
          error |-> "Unexpected RP ID hash"]
  ELSE IF (body.counter > 0 \/ storedCounter > 0) /\ body.counter <= storedCounter
    THEN [threw |-> TRUE, verified |-> FALSE, newCounter |-> 0,
          error |-> "Response counter value was lower than expected"]
  ELSE [threw |-> FALSE, verified |-> body.signatureOk, newCounter |-> body.counter,
        error |-> ""]

\* Whether verifyPasskeyAuthentication reaches dbQueries.updatePasskeyCounter.run.
AuthenticationUpdates(verification) == ~verification.threw /\ verification.verified

\* The counter verifyPasskeyAuthentication hands to the library as credential.counter.
CredentialCounterZero(passkey) == 0
CredentialCounter(passkey) == passkey.counter

\* The credential id under which verifyPasskeyAuthentication looks the
\* credential up and updates it: the response's id field.
AuthenticationCredentialIdReencoded(body) ==
  IF body.id = "credA" THEN "Y3JlZEE" ELSE "Y3JlZEI"
AuthenticationCredentialId(body) == body.id

\* The u.username column that getPasskeyByCredentialId joins to a passkey row.
JoinedUsername(passkey) == Usernames[passkey.user_id]

\* verifyPasskeyAuthentication: [threw, verified, userId, username, passkeys, error].
verifyPasskeyAuthentication(body, expectedChallenge) ==
  LET credentialId == AuthenticationCredentialId(body)
      found == getPasskeyByCredentialId(credentialId)
  IN IF found = {}
       THEN [threw |-> TRUE, verified |-> FALSE, userId |-> 0, username |-> "",
             passkeys |-> passkeys, error |-> "Passkey not found"]
       ELSE LET passkey == CHOOSE p \in found : TRUE
                verification ==
                  verifyAuthenticationResponse(body, expectedChallenge,
                                               CredentialCounter(passkey))
            IN IF verification.threw
                 THEN [threw |-> TRUE, verified |-> FALSE, userId |-> 0, username |-> "",
                       passkeys |-> passkeys, error |-> verification.error]
                 ELSE [threw |-> FALSE, verified |-> verification.verified,
                       userId |-> passkey.user_id,
                       username |-> JoinedUsername(passkey),
                       passkeys |-> IF AuthenticationUpdates(verification)
                                      THEN updatePasskeyCounter(verification.newCounter,
                                                                credentialId)
                                      ELSE passkeys,
                       error |-> ""]

\* Whether the route goes on to create a login session.
CreatesLoginSessionUnverified(result) == ~result.threw
CreatesLoginSession(result) == ~result.threw /\ result.verified

AuthenticateVerifyOutcome(body) ==
  IF body.challenge = NoChallenge
    THEN Unchanged(Reply("authenticate-verify", 400, "Challenge is required"))
  ELSE LET result == verifyPasskeyAuthentication(body, body.challenge)
       IN IF result.threw
            THEN Unchanged(Reply("authenticate-verify", 500, result.error))
          ELSE IF ~CreatesLoginSession(result)
            THEN Outcome(result.passkeys, sessions,
                         Reply("authenticate-verify", 200, "Passkey authentication failed"))
          ELSE Outcome(result.passkeys,
                       createSession(SessionKey(nextSession + 1), result.userId,
                                     PasskeyLogin, toISOString(now + LoginTTL)),
                       [Reply("authenticate-verify", 200, "Passkey authentication successful")
                          EXCEPT !.verified = TRUE, !.userId = result.userId,
                                 !.username = result.username])

\* The handler's effect on the tables.
AuthenticateVerifyStep(body) ==
  LET out == AuthenticateVerifyOutcome(body)
  IN /\ out.sessions # sessions => nextSession < MaxSessions
     /\ passkeys' = out.passkeys
     /\ sessions' = out.sessions
     /\ nextSession' = IF out.sessions # sessions THEN nextSession + 1 ELSE nextSession
     /\ UNCHANGED <<nextPasskeyId, nextChallenge, now, consumed, debugLogs, calls>>

AuthenticateVerify ==
  \E body \in AuthenticateVerifyRequests :
    AuthenticateVerifyStep(body) /\ UNCHANGED evaluated

\* The request gets as far as verifyAuthenticationResponse: it carries a
\* challenge and names a stored credential.
EvaluatesAssertion(body) ==
  body.challenge # NoChallenge /\ getPasskeyByCredentialId(body.id) # {}

\* The same handler, with the history of evaluated challenges kept.
AuthenticateVerifyRecorded ==
  \E body \in AuthenticateVerifyRequests :
    /\ AuthenticateVerifyStep(body)
    /\ evaluated' = IF EvaluatesAssertion(body)
                      THEN evaluated \cup {body.challenge} ELSE evaluated

(* -------------------------- passkeys/delete --------------------------- *)

\* passkeyId 0 stands for a body without passkeyId.
DeleteRequests ==
  {[cookie |-> c, passkeyId |-> i] : c \in Cookies, i \in 0..nextPasskeyId}

DeleteOutcome(req) ==
  IF req.cookie = NoCookie
    THEN Unchanged(Reply("delete", 401, "Not authenticated"))
  ELSE IF getSession(req.cookie) = {}
    THEN Unchanged(Reply("delete", 401, "Invalid session"))
  ELSE IF req.passkeyId = 0
    THEN Unchanged(Reply("delete", 400, "Passkey ID is required"))
  ELSE LET session == CHOOSE s \in getSession(req.cookie) : TRUE
           result == deletePasskey(req.passkeyId, session.user_id)
       IN IF Cardinality(passkeys) - Cardinality(result) = 0
            THEN Outcome(result, sessions,
                         Reply("delete", 404, "Passkey not found or not owned by user"))
            ELSE Outcome(result, sessions,
                         Reply("delete", 200, "Passkey deleted successfully"))

DeletePasskey ==
  \E req \in DeleteRequests :
    LET out == DeleteOutcome(req)
    IN /\ passkeys' = out.passkeys
       /\ UNCHANGED <<sessions, nextPasskeyId, nextSession, nextChallenge, now, consumed, untracked>>

\* passkeys/list: the credentials of the session's user.
ListOutcome(cookie) ==
  IF cookie = NoCookie
    THEN Unchanged(Reply("list", 401, "Not authenticated"))
  ELSE IF getSession(cookie) = {}
    THEN Unchanged(Reply("list", 401, "Invalid session"))
  ELSE LET session == CHOOSE s \in getSession(cookie) : TRUE
       IN Unchanged([Reply("list", 200, "")
                       EXCEPT !.userId = session.user_id,
                              !.allow = {p.credential_id :
                                           p \in getPasskeysByUserId(session.user_id)}])

ListPasskeys ==
  \E cookie \in Cookies :
    LET out == ListOutcome(cookie)
    IN /\ passkeys' = out.passkeys
       /\ sessions' = out.sessions
       /\ UNCHANGED <<nextPasskeyId, nextSession, nextChallenge, now, consumed, untracked>>

Next ==
  \/ Tick
  \/ Startup
  \/ Login
  \/ Logout
  \/ SessionCheck
  \/ RegisterOptions
  \/ RegisterVerify
  \/ AuthenticateOptions
  \/ AuthenticateVerify
  \/ DeletePasskey
  \/ ListPasskeys

Spec == Init /\ [][Next]_vars

\* The requests an authentication replay is made of, with the history of the
\* challenges that authenticate/verify evaluated.
NextAuthHistory ==
  \/ Login
  \/ RegisterOptions
  \/ RegisterVerify
  \/ AuthenticateOptions
  \/ AuthenticateVerifyRecorded

SpecAuthHistory == Init /\ [][NextAuthHistory]_vars

\* The request passes the route's session check and stored-challenge lookup:
\* the ceremony verifier is called on it.
ReachesRegistrationVerifier(req) ==
  /\ req.cookie # NoCookie
  /\ getSession(req.cookie) # {}
  /\ req.body.challenge # NoChallenge
  /\ req.body.challenge \in StoredChallenges(req.cookie)

SessionUser(cookie) == (CHOOSE s \in getSession(cookie) : TRUE).user_id

(* ------------------- what the ceremony calls log ---------------------- *)

\* A debug-log entry, reduced to its step name and to what its data holds of
\* the ceremony's challenge, of the stored public key and of the response
\* body: webauthnDebugger.log(step, type, message, data).
NotLogged == <<"not-logged">>

log(step, challenge, publicKey, body) ==
  [step |-> step, challenge |-> challenge, publicKey |-> publicKey, body |-> body]

\* text.substring(0, n) + '...'
substring(text, n) == <<"substring", n, text>>

\* The public_key column of a passkey row.
StoredPublicKey(passkey) == <<"public_key", passkey.credential_id>>

\* Entries of generatePasskeyRegistrationOptions: the last one logs the
\* generated options object, challenge included.
RegistrationOptionsLogs(result) ==
  <<log("registration-start", NotLogged, NotLogged, FALSE),
    log("registration-query", NotLogged, NotLogged, FALSE),
    log("registration-options", NotLogged, NotLogged, FALSE),
    log("registration-generated", result.challenge, NotLogged, FALSE)>>

\* Entries of verifyPasskeyRegistration: the catch block logs the whole body.
RegistrationVerificationLogs(body, expectedChallenge) ==
  LET verification == verifyRegistrationResponse(body, expectedChallenge)
      error == <<log("verification-error", NotLogged, NotLogged, TRUE)>>
  IN <<log("verification-start", substring(expectedChallenge, 20), NotLogged, FALSE),
       log("verification-input", NotLogged, NotLogged, FALSE),
       log("verification-params", substring(expectedChallenge, 20), NotLogged, FALSE)>>
     \o (IF verification.threw THEN error
         ELSE <<log("verification-result", NotLogged, NotLogged, FALSE)>>
              \o (IF ~verification.verified
                    THEN <<log("verification-failed", substring(expectedChallenge, 20),
                               NotLogged, FALSE)>>
                    ELSE <<>>)
              \o (IF ~RegistrationStores(verification) THEN <<>>
                  ELSE IF createPasskeyFails(RegistrationCredentialId(body)) THEN error
                  ELSE <<log("verification-stored", NotLogged, NotLogged, FALSE)>>))

\* Entries of generatePasskeyAuthenticationOptions.
AuthenticationOptionsLogs(username, result) ==
  <<log("auth-start", NotLogged, NotLogged, FALSE)>>
  \o (IF username # NoUsername /\ getUserByUsername(username) # {}
        THEN <<log("auth-credentials", NotLogged, NotLogged, FALSE)>>
        ELSE <<>>)
  \o <<log("auth-options", NotLogged, NotLogged, FALSE),
       log("auth-generated", result.challenge, NotLogged, FALSE)>>

\* Entries of verifyPasskeyAuthentication.
AuthenticationVerificationLogs(body, expectedChallenge) ==
  LET found == getPasskeyByCredentialId(AuthenticationCredentialId(body))
      error == <<log("auth-verify-error", NotLogged, NotLogged, TRUE)>>
  IN <<log("auth-verify-start", substring(expectedChallenge, 20), NotLogged, FALSE),
       log("auth-verify-input", NotLogged, NotLogged, FALSE)>>
     \o (IF found = {}
           THEN <<log("auth-verify-error", NotLogged, NotLogged, FALSE)>> \o error
         ELSE LET passkey == CHOOSE p \in found : TRUE
                  verification ==
                    verifyAuthenticationResponse(body, expectedChallenge,
                                                 CredentialCounter(passkey))
              IN <<log("auth-verify-found", NotLogged, NotLogged, FALSE),
                   log("auth-verify-params", substring(expectedChallenge, 20),
                       NotLogged, FALSE)>>
                 \o (IF verification.threw THEN error
                     ELSE <<log("auth-verify-result", NotLogged, NotLogged, FALSE)>>
                          \o (IF ~verification.verified
                                THEN <<log("auth-verify-failed",
                                           substring(expectedChallenge, 20),
                                           substring(StoredPublicKey(passkey), 40),
                                           FALSE)>>
                                ELSE <<>>)
                          \o (IF AuthenticationUpdates(verification)
                                THEN <<log("auth-verify-updated", NotLogged, NotLogged,
                                           FALSE)>>
                                ELSE <<>>)))

\* The entries each request leaves in the debugger: none when the route
\* answers before it calls the ceremony function.
RegisterOptionsLogged(req) ==
  IF DrewChallenge(RegisterOptionsOutcome(req).response)
    THEN RegistrationOptionsLogs(
           generatePasskeyRegistrationOptions(SessionUser(req.cookie), req.username))
    ELSE <<>>

RegisterVerifyLogged(req) ==
  IF ReachesRegistrationVerifier(req)
    THEN RegistrationVerificationLogs(req.body, req.body.challenge)
    ELSE <<>>

AuthenticateOptionsLogged(username) ==
  AuthenticationOptionsLogs(username, generatePasskeyAuthenticationOptions(username))

AuthenticateVerifyLogged(body) ==
  IF body.challenge # NoChallenge
    THEN AuthenticationVerificationLogs(body, body.challenge)
    ELSE <<>>

(* ---------------- ceremony calls that overlap in time ------------------ *)

\* The ceremony functions are async: each runs up to its `await` of the
\* library call, and the rest runs when the library call has settled. Other
\* calls may run in between. Below, every registration ceremony call is two
\* steps, Begin (the route's checks and the function up to the await) and
\* Resume (the rest of the function and of the route).

\* webauthnDebugger.log: an entry, with the call that appended it.
LogEntries(c, steps) == [i \in DOMAIN steps |-> <<c, steps[i]>>]

\* webauthnDebugger.clearLogs(): the buffer a ceremony function starts with.
clearLogsKeeps == debugLogs
clearLogs == <<>>

Awaiting == {c \in Calls : calls[c].pc = "awaiting"}

\* Call c is the next one to start.
Starts(c) ==
  /\ calls[c].pc = "idle"
  /\ \A d \in Calls : d < c => calls[d].pc # "idle"

\* A call that the route answers before it reaches the ceremony function.
AnsweredEarly(c, op, req, status) ==
  [IdleCall EXCEPT !.pc = "done", !.op = op, !.req = req, !.status = status,
                   !.peers = Awaiting]

\* The options requests sent as ceremony calls: without a username, or with
\* one (the call uses it as the display name only).
CallRegisterOptionsRequests ==
  {req \in RegisterOptionsRequests : req.username \in {NoUsername, UnknownUsername}}

\* generatePasskeyRegistrationOptions up to `await generateRegistrationOptions`.
RegisterOptionsBegin(c) ==
  /\ Starts(c)
  /\ \E req \in CallRegisterOptionsRequests :
       LET early == RegisterOptionsOutcome(req).response.status
           steps == <<"registration-start", "registration-query", "registration-options">>
       IN IF early \in {400, 401}
            THEN /\ calls' = [calls EXCEPT ![c] = AnsweredEarly(c, "register-options", req, early)]
                 /\ UNCHANGED debugLogs
            ELSE /\ debugLogs' = clearLogs \o LogEntries(c, steps)
                 /\ calls' = [calls EXCEPT ![c] =
                                [IdleCall EXCEPT !.pc = "awaiting", !.op = "register-options",
                                                 !.req = req,
                                                 !.userId = SessionUser(req.cookie),
                                                 !.peers = Awaiting,
                                                 !.own = LogEntries(c, steps)]]
  /\ UNCHANGED <<passkeys, sessions, nextPasskeyId, nextSession, nextChallenge, now,
                 consumed, evaluated>>

\* The rest of generatePasskeyRegistrationOptions and of the route:
\* the last log entry, getLogs(), createSession.
RegisterOptionsResume(c) ==
  /\ calls[c].pc = "awaiting"
  /\ calls[c].op = "register-options"
  /\ nextChallenge < MaxChallenges
  /\ LET call == calls[c]
         key == ChallengeKey(call.req.cookie)
         entry == LogEntries(c, <<"registration-generated">>)
         logs == debugLogs \o entry
         fails == createSessionFails(key)
     IN /\ debugLogs' = logs
        /\ sessions' = IF fails THEN sessions
                       ELSE createSession(key, call.userId, Challenge(nextChallenge + 1),
                                          toISOString(now + RegTTL))
        /\ calls' = [calls EXCEPT ![c] =
                       [call EXCEPT !.pc = "done", !.own = call.own \o entry,
                                    !.status = IF fails THEN 500 ELSE 200,
                                    !.returned = IF fails THEN <<>> ELSE logs]]
  /\ nextChallenge' = nextChallenge + 1
  /\ UNCHANGED <<passkeys, nextPasskeyId, nextSession, now, consumed, evaluated>>

\* The registration responses sent while other calls are in flight: a valid
\* one for each credential id, one with a foreign origin, one with an invalid
\* attestation, and the ones the route answers early.
OverlapRegisterVerifyRequests ==
  {req \in RegisterVerifyRequests :
     /\ req.body.counter = 0
     /\ req.body.clientChallenge = req.body.challenge
     /\ req.body.rpId = RP_ID
     /\ req.body.origin = ORIGIN \/ req.body.attestationOk}

\* The route's checks and verifyPasskeyRegistration up to
\* `await verifyRegistrationResponse`.
RegisterVerifyBeginWith(c, requests) ==
  /\ Starts(c)
  /\ \E req \in requests :
       LET steps == <<"verification-start", "verification-input", "verification-params">>
       IN IF ~ReachesRegistrationVerifier(req)
            THEN /\ calls' = [calls EXCEPT ![c] =
                                AnsweredEarly(c, "register-verify", req,
                                              RegisterVerifyOutcome(req).response.status)]
                 /\ UNCHANGED debugLogs
            ELSE /\ debugLogs' = clearLogs \o LogEntries(c, steps)
                 /\ calls' = [calls EXCEPT ![c] =
                                [IdleCall EXCEPT !.pc = "awaiting", !.op = "register-verify",
                                                 !.req = req,
                                                 !.userId = SessionUser(req.cookie),
                                                 !.peers = Awaiting,
                                                 !.own = LogEntries(c, steps)]]
  /\ UNCHANGED <<passkeys, sessions, nextPasskeyId, nextSession, nextChallenge, now,
                 consumed, evaluated>>

RegisterVerifyBegin(c) == RegisterVerifyBeginWith(c, OverlapRegisterVerifyRequests)

\* What verifyPasskeyRegistration logs after the await.
VerificationSteps(body, result) ==
  IF verifyRegistrationResponse(body, body.challenge).threw
    THEN <<"verification-error">>
  ELSE IF result.threw
    THEN <<"verification-result", "verification-error">>
  ELSE IF result.verified
    THEN <<"verification-result", "verification-stored">>
  ELSE <<"verification-result", "verification-failed">>

\* The rest of verifyPasskeyRegistration and of the route: the library's
\* verdict, createPasskey, getLogs(), deleteSession of the challenge row.
RegisterVerifyResume(c) ==
  /\ calls[c].pc = "awaiting"
  /\ calls[c].op = "register-verify"
  /\ LET call == calls[c]
         body == call.req.body
         result == verifyPasskeyRegistration(body, body.challenge, call.userId)
         entries == LogEntries(c, VerificationSteps(body, result))
         logs == debugLogs \o entries
     IN /\ result.passkeys # passkeys => nextPasskeyId < MaxPasskeys
        /\ debugLogs' = logs
        /\ passkeys' = result.passkeys
        /\ nextPasskeyId' = IF result.passkeys # passkeys THEN nextPasskeyId + 1
                            ELSE nextPasskeyId
        /\ sessions' = IF result.threw THEN sessions ELSE CleanUpChallenge(call.req.cookie)
        /\ consumed' = IF result.threw THEN consumed
                       ELSE consumed \cup {<<call.req.cookie, body.challenge>>}
        /\ calls' = [calls EXCEPT ![c] =
                       [call EXCEPT !.pc = "done", !.own = call.own \o entries,
                                    !.status = IF result.threw THEN 500 ELSE 200,
                                    !.verified = ~result.threw /\ result.verified,
                                    !.returned = IF result.threw THEN <<>> ELSE logs]]
  /\ UNCHANGED <<nextSession, nextChallenge, now, evaluated>>

NextOverlap ==
  \/ Login
  \/ \E c \in Calls : RegisterOptionsBegin(c)
  \/ \E c \in Calls : RegisterOptionsResume(c)
  \/ \E c \in Calls : RegisterVerifyBegin(c)
  \/ \E c \in Calls : RegisterVerifyResume(c)

SpecOverlap == Init /\ [][NextOverlap]_vars

\* generatePasskeyAuthenticationOptions up to `await generateAuthenticationOptions`.
AuthenticateOptionsBegin(c) ==
  /\ Starts(c)
  /\ \E username \in AuthenticateOptionsRequests :
       LET steps == <<"auth-start">>
                    \o (IF username # NoUsername /\ getUserByUsername(username) # {}
                          THEN <<"auth-credentials">> ELSE <<>>)
                    \o <<"auth-options">>
       IN /\ debugLogs' = clearLogs \o LogEntries(c, steps)
          /\ calls' = [calls EXCEPT ![c] =
                         [IdleCall EXCEPT !.pc = "awaiting", !.op = "authenticate-options",
                                          !.req = [cookie |-> NoCookie, body |-> username],
                                          !.peers = Awaiting,
                                          !.own = LogEntries(c, steps)]]
  /\ UNCHANGED <<passkeys, sessions, nextPasskeyId, nextSession, nextChallenge, now,
                 consumed, evaluated>>

\* The rest of generatePasskeyAuthenticationOptions: the last log entry and
\* getLogs(); the route stores nothing.
AuthenticateOptionsResume(c) ==
  /\ calls[c].pc = "awaiting"
  /\ calls[c].op = "authenticate-options"
  /\ nextChallenge < MaxChallenges
  /\ LET call == calls[c]
         entry == LogEntries(c, <<"auth-generated">>)
         logs == debugLogs \o entry
     IN /\ debugLogs' = logs
        /\ calls' = [calls EXCEPT ![c] =
                       [call EXCEPT !.pc = "done", !.own = call.own \o entry,
                                    !.status = 200, !.returned = logs]]
  /\ nextChallenge' = nextChallenge + 1
  /\ UNCHANGED <<passkeys, sessions, nextPasskeyId, nextSession, now, consumed, evaluated>>

\* The assertions sent as ceremony calls: well-formed ones and ones with a
\* foreign origin or an invalid signature, and the ones answered at once.
CallAuthenticateVerifyRequests ==
  {body \in AuthenticateVerifyRequests :
     /\ body.clientChallenge = body.challenge
     /\ body.rpId = RP_ID
     /\ body.origin = ORIGIN \/ body.signatureOk}

\* The route's check and verifyPasskeyAuthentication up to
\* `await verifyAuthenticationResponse`: the credential row, and with it the
\* stored counter, is read before the await.
AuthenticateVerifyBeginWith(c, requests) ==
  /\ Starts(c)
  /\ \E body \in requests :
       LET req == [cookie |-> NoCookie, body |-> body]
           found == getPasskeyByCredentialId(AuthenticationCredentialId(body))
           missing == <<"auth-verify-start", "auth-verify-input",
                        "auth-verify-error", "auth-verify-error">>
           steps == <<"auth-verify-start", "auth-verify-input",
                      "auth-verify-found", "auth-verify-params">>
       IN IF body.challenge = NoChallenge
            THEN /\ calls' = [calls EXCEPT ![c] =
                                AnsweredEarly(c, "authenticate-verify", req, 400)]
                 /\ UNCHANGED debugLogs
          ELSE IF found = {}
            THEN /\ debugLogs' = clearLogs \o LogEntries(c, missing)
                 /\ calls' = [calls EXCEPT ![c] =
                                [IdleCall EXCEPT !.pc = "done", !.op = "authenticate-verify",
                                                 !.req = req, !.status = 500,
                                                 !.peers = Awaiting,
                                                 !.own = LogEntries(c, missing)]]
          ELSE LET passkey == CHOOSE p \in found : TRUE
               IN /\ debugLogs' = clearLogs \o LogEntries(c, steps)
                  /\ calls' = [calls EXCEPT ![c] =
                                 [IdleCall EXCEPT !.pc = "awaiting",
                                                  !.op = "authenticate-verify",
                                                  !.req = req,
                                                  !.userId = passkey.user_id,
                                                  !.counter = CredentialCounter(passkey),
                                                  !.peers = Awaiting,
                                                  !.own = LogEntries(c, steps)]]
  /\ UNCHANGED <<passkeys, sessions, nextPasskeyId, nextSession, nextChallenge, now,
                 consumed, evaluated>>

AuthenticateVerifyBegin(c) ==
  AuthenticateVerifyBeginWith(c, CallAuthenticateVerifyRequests)

\* What verifyPasskeyAuthentication logs after the await.
AuthenticationSteps(verification) ==
  IF verification.threw
    THEN <<"auth-verify-error">>
    ELSE <<"auth-verify-result">>
         \o (IF ~verification.verified THEN <<"auth-verify-failed">> ELSE <<>>)
         \o (IF AuthenticationUpdates(verification) THEN <<"auth-verify-updated">>
             ELSE <<>>)

\* The rest of verifyPasskeyAuthentication and of the route: the library's
\* verdict against the counter read before the await, updatePasskeyCounter,
\* getLogs(), and the login session.
AuthenticateVerifyResume(c) ==
  /\ calls[c].pc = "awaiting"
  /\ calls[c].op = "authenticate-verify"
  /\ LET call == calls[c]
         body == call.req.body
         verification == verifyAuthenticationResponse(body, body.challenge, call.counter)
         entries == LogEntries(c, AuthenticationSteps(verification))
         logs == debugLogs \o entries
         creates == CreatesLoginSession(verification)
     IN /\ creates => nextSession < MaxCallSessions
        /\ debugLogs' = logs
        /\ passkeys' = IF AuthenticationUpdates(verification)
                         THEN updatePasskeyCounter(verification.newCounter,
                                                   AuthenticationCredentialId(body))
                         ELSE passkeys
        /\ sessions' = IF creates
                         THEN createSession(SessionKey(nextSession + 1), call.userId,
                                            PasskeyLogin, toISOString(now + LoginTTL))
                         ELSE sessions
        /\ nextSession' = IF creates THEN nextSession + 1 ELSE nextSession
        /\ calls' = [calls EXCEPT ![c] =
                       [call EXCEPT !.pc = "done", !.own = call.own \o entries,
                                    !.status = IF verification.threw THEN 500 ELSE 200,
                                    !.verified = creates,
                                    !.returned = IF verification.threw THEN <<>> ELSE logs]]
  /\ UNCHANGED <<nextPasskeyId, nextChallenge, now, consumed, evaluated>>

\* Ceremony calls executed one at a time: a call starts only when no other
\* call is awaiting the library.
NextOneAtATime ==
  \/ Login
  \/ Awaiting = {} /\ \E c \in Calls : RegisterOptionsBegin(c)
  \/ \E c \in Calls : RegisterOptionsResume(c)
  \/ Awaiting = {} /\ \E c \in Calls : RegisterVerifyBegin(c)
  \/ \E c \in Calls : RegisterVerifyResume(c)
  \/ Awaiting = {} /\ \E c \in Calls : AuthenticateOptionsBegin(c)
  \/ \E c \in Calls : AuthenticateOptionsResume(c)
  \/ Awaiting = {} /\ \E c \in Calls : AuthenticateVerifyBegin(c)
  \/ \E c \in Calls : AuthenticateVerifyResume(c)

SpecOneAtATime == Init /\ [][NextOneAtATime]_vars

\* Assertions that race: credentials are registered by requests answered
\* one at a time, the authenticate/verify calls overlap. The racing
\* assertions are valid ones on the last issued challenge, by an
\* authenticator that counts its signatures (each nonzero counter).
RacingAuthenticateVerifyRequests ==
  {body \in CallAuthenticateVerifyRequests :
     /\ body.challenge = Challenge(nextChallenge)
     /\ body.counter > 0
     /\ body.origin = ORIGIN
     /\ body.signatureOk
     /\ getPasskeyByCredentialId(AuthenticationCredentialId(body)) # {}}

\* The registrations that precede the race: valid ones, reporting counter 0.
EnrollingRegisterVerifyRequests ==
  {req \in OverlapRegisterVerifyRequests :
     /\ ReachesRegistrationVerifier(req)
     /\ req.body.origin = ORIGIN
     /\ req.body.attestationOk}

NextAuthenticationRace ==
  \/ Login
  \/ RegisterOptions
  \/ RegisterVerifyWith(EnrollingRegisterVerifyRequests)
  \/ \E c \in Calls : AuthenticateVerifyBeginWith(c, RacingAuthenticateVerifyRequests)
  \/ \E c \in Calls : AuthenticateVerifyResume(c)

SpecAuthenticationRace == Init /\ [][NextAuthenticationRace]_vars

\* Registration responses that race: the options requests that issued their
\* challenges have been answered, the register/verify calls overlap.
RacingRegisterVerifyRequests ==
  {req \in OverlapRegisterVerifyRequests :
     ReachesRegistrationVerifier(req) /\ req.body.origin = ORIGIN}

NextRegistrationRace ==
  \/ Login
  \/ RegisterOptions
  \/ \E c \in Calls : RegisterVerifyBeginWith(c, RacingRegisterVerifyRequests)
  \/ \E c \in Calls : RegisterVerifyResume(c)

SpecRegistrationRace == Init /\ [][NextRegistrationRace]_vars

(* ========================= properties checked ========================= *)

\* The client data echoes the body's challenge, names the configured origin
\* and RP ID, and the attestation verifies.
ValidAttestation(body) ==
  /\ body.clientChallenge = body.challenge
  /\ body.origin = ORIGIN
  /\ body.rpId = RP_ID
  /\ body.attestationOk

\* The assertion is valid apart from its counter.
ValidAssertion(body) ==
  /\ body.challenge # NoChallenge
  /\ body.clientChallenge = body.challenge
  /\ body.origin = ORIGIN
  /\ body.rpId = RP_ID
  /\ body.signatureOk

Verified(out) == out.response.status = 200 /\ out.response.verified

\* The registration succeeded and its credential is in the store it leaves.
RegisteredBy(req, out) ==
  /\ Verified(out)
  /\ out.response.credentialId = req.body.id
  /\ \E p \in out.passkeys : /\ p.credential_id = out.response.credentialId
                             /\ p.user_id = SessionUser(req.cookie)

\* C1 as stated: every valid attestation response built on the challenge
\* stored for the requesting authenticated session verifies, and the
\* credential is then in the store under the returned id.
C1_EveryValidRegistrationSucceeds ==
  \A req \in RegisterVerifyRequests :
    (ReachesRegistrationVerifier(req) /\ ValidAttestation(req.body))
      => RegisteredBy(req, RegisterVerifyOutcome(req))

\* C1 amended: a valid attestation response built on the challenge stored
\* for the requesting authenticated session, whose credential id is not yet
\* stored for any user, verifies, and the credential is then in the store
\* under the returned id, owned by the session's user.
C1_FreshValidRegistrationSucceeds ==
  \A req \in RegisterVerifyRequests :
    (/\ ReachesRegistrationVerifier(req)
     /\ ValidAttestation(req.body)
     /\ ~createPasskeyFails(req.body.id))
      => RegisteredBy(req, RegisterVerifyOutcome(req))

\* A credential has been registered and a further valid registration of a
\* new credential id is at hand.
C1_Witness ==
  /\ passkeys # {}
  /\ \E req \in RegisterVerifyRequests :
       /\ ReachesRegistrationVerifier(req)
       /\ ValidAttestation(req.body)
       /\ ~createPasskeyFails(req.body.id)

\* C2: once register/verify has consumed a session's challenge, any
\* registration response on that challenge from that session is turned down
\* at the challenge lookup ("Invalid challenge") while the session is live,
\* and in no case changes the passkeys or sessions tables.
C2_ReplayAfterConsumptionRejected ==
  \A pair \in consumed :
    \A b \in RegBodies(pair[2]) :
      LET out == RegisterVerifyOutcome([cookie |-> pair[1], body |-> b])
      IN /\ out.passkeys = passkeys
         /\ out.sessions = sessions
         /\ ~Verified(out)
         /\ getSession(pair[1]) # {}
              => /\ out.response.status = 400
                 /\ out.response.details = "Invalid challenge"

\* A challenge was consumed by a verified registration, the session is still
\* live and a new challenge is stored for it.
C2_Witness ==
  \E pair \in consumed :
    /\ getSession(pair[1]) # {}
    /\ passkeys # {}
    /\ StoredChallenges(pair[1]) # {}

C5_RejectionCommitsNothing ==
  /\ \A req \in RegisterVerifyRequests :
       LET out == RegisterVerifyOutcome(req)
       IN ~Verified(out) => out.passkeys = passkeys
  /\ \A body \in AuthenticateVerifyRequests :
       LET out == AuthenticateVerifyOutcome(body)
       IN ~Verified(out) => out.passkeys = passkeys /\ out.sessions = sessions

\* Rejected registrations and rejected authentications of a stored
\* credential, by verified = false and by a thrown error, are at hand.
C5_Witness ==
  /\ \E req \in RegisterVerifyRequests :
       /\ ReachesRegistrationVerifier(req)
       /\ ~req.body.attestationOk
       /\ RegisterVerifyOutcome(req).response.status = 200
  /\ \E body \in AuthenticateVerifyRequests :
       /\ getPasskeyByCredentialId(body.id) # {}
       /\ AuthenticateVerifyOutcome(body).response.status = 500
  /\ \E body \in AuthenticateVerifyRequests :
       /\ getPasskeyByCredentialId(body.id) # {}
       /\ AuthenticateVerifyOutcome(body).response.status = 200
       /\ ~Verified(AuthenticateVerifyOutcome(body))

\* C6: no two rows of the passkeys table share a credential id, and a
\* registration presenting a credential id that is already stored is
\* rejected and leaves the passkeys table (the existing row and its owner)
\* as it is.
C6_CredentialIdUnique ==
  /\ \A p, q \in passkeys : p.credential_id = q.credential_id => p = q
  /\ \A req \in RegisterVerifyRequests :
       (ReachesRegistrationVerifier(req) /\ createPasskeyFails(req.body.id))
         => LET out == RegisterVerifyOutcome(req)
            IN ~Verified(out) /\ out.passkeys = passkeys

\* A valid registration of a credential id that another user already holds
\* is at hand.
C6_Witness ==
  \E req \in RegisterVerifyRequests :
    /\ ReachesRegistrationVerifier(req)
    /\ ValidAttestation(req.body)
    /\ \E p \in passkeys : /\ p.credential_id = req.body.id
                           /\ p.user_id # SessionUser(req.cookie)

\* The credential ids an options response allows (none without an allow-list).
AllowedIds(response) == IF response.allow = NoList THEN {} ELSE response.allow

\* C7: the allow-list of authentication options holds exactly the
\* credential ids stored for the user of the given username; without a
\* username, or for a username no user has, there is no allow-list.
C7_AllowListIsUsersCredentials ==
  \A username \in AuthenticateOptionsRequests :
    LET response == AuthenticateOptionsOutcome(username).response
    IN /\ \A u \in UserIds :
            Usernames[u] = username =>
              AllowedIds(response) =
                {p.credential_id : p \in {x \in passkeys : x.user_id = u}}
       /\ (username = NoUsername \/ \A u \in UserIds : Usernames[u] # username)
            => response.allow = NoList

\* One user holds two credentials, or each of the two users holds one.
C7_Witness ==
  \/ \E u \in UserIds : Cardinality({p \in passkeys : p.user_id = u}) = 2
  \/ \A u \in UserIds : Cardinality({p \in passkeys : p.user_id = u}) = 1

\* C8: a delete request from a live session naming a passkey row that the
\* session's user does not own removes no row, leaves the passkeys and
\* sessions tables as they are and is answered 404, not by a thrown error.
C8_DeleteNotOwnedIsNoOp ==
  \A req \in DeleteRequests :
    (/\ req.cookie # NoCookie
     /\ getSession(req.cookie) # {}
     /\ req.passkeyId # 0
     /\ ~\E p \in passkeys : /\ p.id = req.passkeyId
                             /\ p.user_id = SessionUser(req.cookie))
      => LET out == DeleteOutcome(req)
         IN /\ out.passkeys = passkeys
            /\ out.sessions = sessions
            /\ out.response.status = 404

\* A live session of one user and a passkey row of the other user.
C8_Witness ==
  \E req \in DeleteRequests :
    /\ req.cookie # NoCookie
    /\ getSession(req.cookie) # {}
    /\ \E p \in passkeys : /\ p.id = req.passkeyId
                           /\ p.user_id # SessionUser(req.cookie)

\* C9: a registration response that reaches the verifier with a client-data
\* origin other than the configured one is rejected with the origin error,
\* whether or not its attestation is valid, and leaves the passkeys table as
\* it is.
C9_OriginMismatchRejected ==
  \A req \in RegisterVerifyRequests :
    (/\ ReachesRegistrationVerifier(req)
     /\ req.body.clientChallenge = req.body.challenge
     /\ req.body.origin # ORIGIN)
      => LET out == RegisterVerifyOutcome(req)
         IN /\ ~Verified(out)
            /\ out.response.details = "Unexpected registration response origin"
            /\ out.passkeys = passkeys

\* Registration responses with a foreign origin, one with a valid and one
\* with an invalid attestation, reach the verifier.
C9_Witness ==
  \E r1, r2 \in RegisterVerifyRequests :
    /\ ReachesRegistrationVerifier(r1) /\ ReachesRegistrationVerifier(r2)
    /\ r1.body.origin # ORIGIN /\ r1.body.attestationOk
    /\ r2.body.origin # ORIGIN /\ ~r2.body.attestationOk

\* C10 as stated: whatever the outcome of a register/verify request that
\* passes the stored-challenge lookup, the session's challenge row is gone
\* afterwards.
C10_ChallengeConsumedByEveryAttempt ==
  \A req \in RegisterVerifyRequests :
    ReachesRegistrationVerifier(req)
      => \A s \in RegisterVerifyOutcome(req).sessions :
           s.id # ChallengeKey(req.cookie)

\* C11 as stated: once authenticate/verify has evaluated an assertion against
\* a challenge, no later authenticate/verify request presenting that
\* challenge is accepted.
C11_AuthenticationChallengeSingleUse ==
  \A body \in AuthenticateVerifyRequests :
    body.challenge \in evaluated => ~Verified(AuthenticateVerifyOutcome(body))

\* The challenges the options generators have handed out so far.
IssuedChallenges == {Challenge(k) : k \in 1..nextChallenge}

\* C12 as stated: an assertion built on a challenge that the server never
\* issued is never verified as true.
C12_UnissuedChallengeNeverVerified ==
  \A body \in AuthenticateVerifyRequests :
    body.challenge \notin IssuedChallenges
      => ~Verified(AuthenticateVerifyOutcome(body))

\* The stored registration challenge rows (ids `challenge-<sessionId>`).
ChallengeRows == {s \in sessions : s.id[1] = 1}

\* C13 as stated: in every reachable state each user has at most one live
\* (stored, unexpired) registration challenge.
C13_OneLiveChallengePerUser ==
  \A u \in UserIds :
    Cardinality({s \in ChallengeRows : s.user_id = u /\ s \in getSession(s.id)}) <= 1

\* C14 as stated: a registration-options request made while a challenge row
\* of the same session is still stored (expired or not) succeeds and leaves
\* the new challenge as the one stored for the session.
C14_ReRequestOverwritesChallenge ==
  \A req \in RegisterOptionsRequests :
    (/\ req.cookie # NoCookie
     /\ getSession(req.cookie) # {}
     /\ req.username # NoUsername
     /\ \E s \in sessions : s.id = ChallengeKey(req.cookie))
      => LET out == RegisterOptionsOutcome(req)
         IN /\ out.response.status = 200
            /\ {s.challenge : s \in {x \in out.sessions : x.id = ChallengeKey(req.cookie)}}
                 = {Challenge(nextChallenge + 1)}

\* The instant a stored expires_at text stands for, in units of five minutes.
ExpiryInstant(expiresAt) == expiresAt[1] * DayLen + expiresAt[3]

\* C15 as stated: a session row whose expiry instant is not after the current
\* time is absent for getSession, and a register/verify request whose
\* challenge row has reached its expiry instant is rejected.
C15_ExpiredSessionIsAbsent ==
  /\ \A s \in sessions : ExpiryInstant(s.expires_at) <= now => getSession(s.id) = {}
  /\ \A req \in RegisterVerifyRequests :
       (/\ req.cookie # NoCookie
        /\ \E s \in sessions : /\ s.id = ChallengeKey(req.cookie)
                               /\ ExpiryInstant(s.expires_at) <= now)
         => RegisterVerifyOutcome(req).response.status \in {400, 401}

\* A verify call that ends with verified = false and a reason, not in a fault.
EndsUnverifiedWithReason(out) ==
  /\ out.response.status = 200
  /\ ~out.response.verified
  /\ out.response.details # ""

\* C16 as stated: a challenge, origin or RP-ID mismatch, an invalid
\* attestation or signature, a duplicate credential and an unknown credential
\* each end the verify call with verified = false and a reason, never with a
\* thrown error answered as HTTP 500.
C16_ValidationFailuresAreResults ==
  /\ \A req \in RegisterVerifyRequests :
       (/\ ReachesRegistrationVerifier(req)
        /\ ~ValidAttestation(req.body) \/ createPasskeyFails(req.body.id))
         => EndsUnverifiedWithReason(RegisterVerifyOutcome(req))
  /\ \A body \in AuthenticateVerifyRequests :
       (/\ body.challenge # NoChallenge
        /\ ~ValidAssertion(body) \/ getPasskeyByCredentialId(body.id) = {})
         => EndsUnverifiedWithReason(AuthenticateVerifyOutcome(body))

\* The call went through its ceremony function, which logged.
Logged(c) == calls[c].own # <<>>

\* C17 as stated: the debugLogs a ceremony call returns are exactly the
\* entries that call appended, also when calls overlap.
C17_DebugLogsIsolatedPerCall ==
  \A c \in Calls :
    (calls[c].pc = "done" /\ calls[c].status = 200 /\ Logged(c))
      => calls[c].returned = calls[c].own

\* Call d started while call c was awaiting the library, and both are
\* register/verify requests of one session presenting one challenge.
ConcurrentOnOneChallenge(c, d) ==
  /\ c # d
  /\ c \in calls[d].peers
  /\ calls[c].op = "register-verify" /\ calls[d].op = "register-verify"
  /\ calls[c].req.cookie = calls[d].req.cookie
  /\ calls[c].req.body.challenge = calls[d].req.body.challenge

\* C18 as stated: of two concurrent register/verify requests of one session
\* presenting the same stored challenge, at most one is evaluated against it
\* and at most one stores a credential.
C18_ConsumptionIsAtomic ==
  \A c, d \in Calls :
    ConcurrentOnOneChallenge(c, d)
      => /\ ~(Logged(c) /\ Logged(d))
         /\ ~(calls[c].verified /\ calls[d].verified)

C20_LoginSessionBoundToOwner ==
  \A body \in AuthenticateVerifyRequests :
    LET out == AuthenticateVerifyOutcome(body)
    IN /\ Verified(out)
            => \E p \in passkeys :
                 /\ p.credential_id = body.id
                 /\ out.response.userId = p.user_id
                 /\ out.response.username = Usernames[p.user_id]
                 /\ \E s \in out.sessions \ sessions :
                      /\ s.user_id = p.user_id
                      /\ s.challenge = PasskeyLogin
                      /\ out.sessions = sessions \cup {s}
       /\ out.sessions # sessions
            => /\ body.challenge # NoChallenge
               /\ ~verifyPasskeyAuthentication(body, body.challenge).threw
               /\ verifyPasskeyAuthentication(body, body.challenge).verified

\* A passkey login has created a session for the owner of a credential that
\* was used, and an assertion with an invalid signature is at hand.
C20_Witness ==
  /\ \E s \in sessions : \E p \in passkeys :
       /\ s.challenge = PasskeyLogin
       /\ p.last_used_at # Null
       /\ s.user_id = p.user_id
  /\ \E body \in AuthenticateVerifyRequests :
       /\ getPasskeyByCredentialId(body.id) # {}
       /\ body.challenge # NoChallenge
       /\ ~body.signatureOk
       /\ AuthenticateVerifyOutcome(body).response.status = 200

\* A registration ceremony of the session was started and not completed: its
\* challenge row is still stored (the client abandoned it, or its
\* verification ended in an error).
CeremonyOpen(cookie) == \E s \in sessions : s.id = ChallengeKey(cookie)

\* C21 as stated: a session whose registration ceremony was abandoned or
\* rejected can start over (its options request succeeds and stores a fresh
\* challenge), and the challenge of a rejected attempt is not left for a
\* retry.
C21_SessionCanStartOver ==
  /\ \A req \in RegisterOptionsRequests :
       (/\ req.cookie # NoCookie
        /\ getSession(req.cookie) # {}
        /\ req.username # NoUsername
        /\ CeremonyOpen(req.cookie))
         => LET out == RegisterOptionsOutcome(req)
            IN /\ out.response.status = 200
               /\ out.response.challenge = Challenge(nextChallenge + 1)
               /\ \E s \in out.sessions :
                    s.id = ChallengeKey(req.cookie) /\ s.challenge = out.response.challenge
  /\ \A req \in RegisterVerifyRequests :
       LET out == RegisterVerifyOutcome(req)
       IN (ReachesRegistrationVerifier(req) /\ ~Verified(out))
            => ~\E s \in out.sessions :
                  s.id = ChallengeKey(req.cookie) /\ s.challenge = req.body.challenge

\* The descriptors of the credentials stored for a user, each with the
\* transports its authenticator reported at registration.
StoredDescriptors(userId) ==
  {[id |-> p.credential_id, transports |-> AuthenticatorTransports(p.credential_id)] :
     p \in {q \in passkeys : q.user_id = userId}}

\* C22: the exclusion list of every successful registration-options
\* response holds exactly the credential ids, with their transports, of the
\* credentials stored for the requesting user; it is empty when the user
\* has none.
C22_ExcludeListIsUsersCredentials ==
  \A req \in RegisterOptionsRequests :
    LET out == RegisterOptionsOutcome(req)
    IN out.response.status = 200
         => /\ out.response.exclude = StoredDescriptors(SessionUser(req.cookie))
            /\ (getPasskeysByUserId(SessionUser(req.cookie)) = {}
                  => out.response.exclude = {})

\* C22 witness: a user who owns two credentials, one stored with transports
\* and one without, requests registration options and gets them.
C22_Witness ==
  \E req \in RegisterOptionsRequests :
    LET out == RegisterOptionsOutcome(req)
    IN /\ out.response.status = 200
       /\ Cardinality(out.response.exclude) = 2
       /\ \E d \in out.response.exclude : d.transports = Undefined
       /\ \E d \in out.response.exclude : d.transports # Undefined

\* C23 as stated: a credential whose stored counter is zero is accepted
\* whatever counter the assertion reports, and after that authentication
\* the counter check still rejects no reported counter for it.
C23_ZeroCounterCheckStaysSkipped ==
  \A body \in AuthenticateVerifyRequests :
    \A p \in getPasskeyByCredentialId(AuthenticationCredentialId(body)) :
      (CredentialCounter(p) = 0 /\ ValidAssertion(body))
        => LET out == AuthenticateVerifyOutcome(body)
           IN /\ Verified(out)
              /\ \A q \in out.passkeys :
                   q.id = p.id
                     => \A n \in 0..MaxCounter :
                          ~verifyAuthenticationResponse([body EXCEPT !.counter = n],
                                                        body.challenge,
                                                        CredentialCounter(q)).threw

\* The entries that hold a full challenge value, the stored public key
\* untruncated, or the response body as received.
Discloses(entry) ==
  \/ entry.challenge \in {Challenge(k) : k \in 0..(MaxChallenges + 1)}
  \/ entry.publicKey \in {<<"public_key", id>> : id \in CredIds}
  \/ entry.body

NothingDisclosed(entries) == \A i \in DOMAIN entries : ~Discloses(entries[i])

\* C24 as stated: no entry that any ceremony call writes to the debug log
\* holds a full challenge value or raw key material; such values appear
\* truncated only.
C24_LogsHoldNoFullChallenge ==
  /\ \A req \in RegisterOptionsRequests : NothingDisclosed(RegisterOptionsLogged(req))
  /\ \A req \in RegisterVerifyRequests : NothingDisclosed(RegisterVerifyLogged(req))
  /\ \A username \in AuthenticateOptionsRequests :
       NothingDisclosed(AuthenticateOptionsLogged(username))
  /\ \A body \in AuthenticateVerifyRequests :
       NothingDisclosed(AuthenticateVerifyLogged(body))

\* Calls c and d are finished register/verify calls that overlapped in time,
\* both reached the verifier with a valid attestation, and both present the
\* same credential id.
RacedForOneCredential(c, d) ==
  /\ c # d
  /\ c \in calls[d].peers \/ d \in calls[c].peers
  /\ \A e \in {c, d} : /\ calls[e].op = "register-verify"
                       /\ calls[e].pc = "done"
                       /\ Logged(e)
                       /\ ValidAttestation(calls[e].req.body)
  /\ calls[c].req.body.id = calls[d].req.body.id

\* C25: of two concurrent registrations of one credential id, by one user
\* or by two, at most one inserts and the other is rejected; one of them
\* inserts unless the credential was stored before; and the store holds the
\* credential once, owned by the user whose call was verified.
C25_ConcurrentInsertIsAtomic ==
  \A c, d \in Calls :
    RacedForOneCredential(c, d)
      => LET id == calls[c].req.body.id
             rows == {p \in passkeys : p.credential_id = id}
             winners == {e \in Calls : /\ calls[e].op = "register-verify"
                                       /\ calls[e].verified
                                       /\ calls[e].req.body.id = id}
         IN /\ ~(calls[c].verified /\ calls[d].verified)
            /\ \A e \in {c, d} : ~calls[e].verified => calls[e].status = 500
            /\ Cardinality(winners) = 1
            /\ Cardinality(rows) = 1
            /\ \A p \in rows : \A e \in winners : p.user_id = calls[e].userId

\* C25 witness: two users' registrations of one credential id overlapped;
\* one was verified and the other answered with an error.
C25_Witness ==
  \E c, d \in Calls :
    /\ RacedForOneCredential(c, d)
    /\ calls[c].userId # calls[d].userId
    /\ calls[c].verified
    /\ calls[d].status = 500

CounterRegression(body, p) ==
  /\ ValidAssertion(body)
  /\ p.counter > 0
  /\ body.counter <= p.counter

\* An assertion by credential p that is well-formed, with a counter above
\* the stored one, whose signature does not verify.
InvalidSignature(body, p) ==
  /\ body.challenge # NoChallenge
  /\ body.clientChallenge = body.challenge
  /\ body.origin = ORIGIN
  /\ body.rpId = RP_ID
  /\ ~body.signatureOk
  /\ body.counter > p.counter

\* C27: a counter regression and an invalid signature are both turned down
\* with the passkeys and sessions tables left as they are, and the response
\* to the one differs from the response to the other (an error naming the
\* counter against a plain unverified result).
C27_CounterRegressionIsDistinct ==
  \A p \in passkeys :
    \A r, s \in AuthBodies(p.credential_id) :
      (CounterRegression(r, p) /\ InvalidSignature(s, p))
        => LET regressed == AuthenticateVerifyOutcome(r)
               unsigned == AuthenticateVerifyOutcome(s)
           IN /\ ~Verified(regressed) /\ ~Verified(unsigned)
              /\ regressed.passkeys = passkeys /\ regressed.sessions = sessions
              /\ unsigned.passkeys = passkeys /\ unsigned.sessions = sessions
              /\ regressed.response.status = 500
              /\ regressed.response.details
                   = "Response counter value was lower than expected"
              /\ unsigned.response.status = 200
              /\ unsigned.response.details = "Passkey authentication failed"
              /\ regressed.response # unsigned.response

\* C27 witness: a credential with a raised stored counter, for which both a
\* regressing assertion and one with an invalid signature are at hand.
C27_Witness ==
  \E p \in passkeys :
    \E r, s \in AuthBodies(p.credential_id) :
      /\ CounterRegression(r, p)
      /\ InvalidSignature(s, p)
      /\ p.last_used_at # Null
      /\ AuthenticateVerifyOutcome(r).response.status = 500

\* C28 as stated: the sweep that runs at process start removes every
\* session or challenge row whose expiry instant has passed and keeps every
\* row whose expiry instant is still ahead.
C28_SweepRemovesExactlyExpired ==
  \A s \in sessions :
    s \in cleanupExpiredSessions <=> ExpiryInstant(s.expires_at) > now

\* The call that last entered a ceremony function.
LastLogged == {c \in Calls : Logged(c) /\ \A d \in Calls : d > c => ~Logged(d)}

\* C29: with ceremony calls executed one at a time, the debugger's buffer
\* holds the entries of the call that last entered a ceremony function and
\* nothing of earlier calls (it was empty when that call started and only
\* that call appended); the debugLogs of an answered call are the entries
\* that call appended, in order; and a list once returned stays as it was
\* returned when later calls log.
C29_LogsScopedToOneCall ==
  /\ [](/\ \A c \in LastLogged : debugLogs = calls[c].own
        /\ LastLogged = {} => debugLogs = <<>>
        /\ \A c \in Calls :
             (calls[c].pc = "done" /\ calls[c].status = 200 /\ Logged(c))
               => /\ calls[c].returned = calls[c].own
                  /\ \A i \in DOMAIN calls[c].returned : calls[c].returned[i][1] = c)
  /\ [][\A c \in Calls :
          calls[c].pc = "done" => calls'[c].returned = calls[c].returned]_vars

\* C29 witness: a registration call and a later authentication call were
\* both answered with their logs, and the buffer holds the later call's.
C29_Witness ==
  \E c, d \in Calls :
    /\ c < d
    /\ calls[c].op = "register-verify" /\ calls[d].op = "authenticate-verify"
    /\ \A e \in {c, d} : calls[e].pc = "done" /\ calls[e].status = 200 /\ Logged(e)
    /\ calls[c].returned # <<>>
    /\ debugLogs = calls[d].returned

\* C30: every stored credential row names one existing user as its owner,
\* no two rows share a row id, and a row that stays in the store keeps its
\* owner through every registration, authentication and delete request.
C30_CredentialOwnerIsFixed ==
  /\ [](\A p \in passkeys :
          /\ p.user_id \in UserIds
          /\ \A q \in passkeys : q.id = p.id => q = p)
  /\ [][\A p \in passkeys : \A q \in passkeys' :
          q.id = p.id => q.user_id = p.user_id]_vars

\* C30 witness: the first credential was deleted and the second one, still
\* stored, has authenticated.
C30_Witness ==
  /\ nextPasskeyId = 2
  /\ \A p \in passkeys : p.id = 2
  /\ \E p \in passkeys : p.last_used_at # Null /\ p.counter > 0

\* The challenge row the register/options route stores for a session.
ChallengeRow(cookie, challenge) ==
  [id |-> ChallengeKey(cookie), user_id |-> SessionUser(cookie),
   challenge |-> challenge, expires_at |-> toISOString(now + RegTTL)]

\* C31: both options generators leave the passkeys table (counters
\* included) and the sessions table as they found them; the challenge row
\* of a registration is added by the register/options route alone, and the
\* authenticate/options route stores nothing.
C31_GeneratorsOnlyRead ==
  /\ \A req \in RegisterOptionsRequests :
       LET out == RegisterOptionsOutcome(req)
       IN DrewChallenge(out.response)
            => LET result == generatePasskeyRegistrationOptions(SessionUser(req.cookie),
                                                                req.username)
               IN /\ result.passkeys = passkeys
                  /\ result.sessions = sessions
                  /\ out.passkeys = passkeys
                  /\ out.sessions \ sessions
                       = IF out.response.status = 200
                           THEN {ChallengeRow(req.cookie, result.challenge)}
                           ELSE {}
                  /\ sessions \subseteq out.sessions
  /\ \A username \in AuthenticateOptionsRequests :
       LET result == generatePasskeyAuthenticationOptions(username)
           out == AuthenticateOptionsOutcome(username)
       IN /\ result.passkeys = passkeys /\ result.sessions = sessions
          /\ out.passkeys = passkeys /\ out.sessions = sessions

\* C31 witness: credentials with a raised counter and a login session are
\* stored, a registration-options request that the route answers 200 is at
\* hand, and so is an authentication-options request for a user who owns a
\* credential.
C31_Witness ==
  /\ \E p \in passkeys : p.counter > 0
  /\ \E req \in RegisterOptionsRequests : RegisterOptionsOutcome(req).response.status = 200
  /\ \E username \in AuthenticateOptionsRequests :
       generatePasskeyAuthenticationOptions(username).allowCredentials # NoList

\* The values a client may send as its session cookie: the id of a login
\* session, or the id under which a registration challenge is stored.
PresentableIds ==
  (Cookies \ {NoCookie}) \cup {ChallengeKey(c) : c \in Cookies \ {NoCookie}}

\* A session-checking route takes the cookie for an authenticated session.
AcceptedAsSession(cookie) ==
  \/ SessionOutcome(cookie).response.userId # 0
  \/ ListOutcome(cookie).response.status = 200
  \/ RegisterOptionsOutcome([cookie |-> cookie, username |-> UnknownUsername])
       .response.status # 401
  \/ DeleteOutcome([cookie |-> cookie, passkeyId |-> 0]).response.status # 401

\* The row stored under the id was created by a password or passkey login.
LoginRow(s) == s.challenge \in {PasswordLogin, PasskeyLogin}

\* C32 as stated: an id is accepted as an authenticated session only if
\* the row stored under it was created by a login, is still stored (not
\* logged out) and has not reached its expiry; the row of a pending
\* registration challenge is never accepted.
C32_OnlyLoginSessionsAccepted ==
  \A id \in PresentableIds :
    AcceptedAsSession(id)
      => \E s \in sessions : /\ s.id = id
                             /\ LoginRow(s)
                             /\ ExpiryInstant(s.expires_at) > now

\* Calls c and d are answered authenticate/verify calls that overlapped in
\* time, both were verified, and both present the same credential.
OverlappedAssertions(c, d) ==
  /\ c # d
  /\ c \in calls[d].peers \/ d \in calls[c].peers
  /\ \A e \in {c, d} : /\ calls[e].op = "authenticate-verify"
                       /\ calls[e].pc = "done"
                       /\ calls[e].verified
  /\ calls[c].req.body.id = calls[d].req.body.id

\* C33 as stated: after two overlapping authenticate/verify calls for one
\* credential have both been accepted, the stored counter is not below the
\* larger of the two accepted counters.
C33_OverlapKeepsHighestCounter ==
  \A c, d \in Calls :
    OverlappedAssertions(c, d)
      => \A p \in passkeys :
           p.credential_id = calls[c].req.body.id
             => /\ p.counter >= calls[c].req.body.counter
                /\ p.counter >= calls[d].req.body.counter

\* C34: when verifyPasskeyRegistration returns verified = true, its
\* credentialId is non-empty and the table it leaves holds a credential with
\* that id owned by the userId it was given; when it returns verified =
\* false, its credentialId is empty and the table is as it was.
C34_ReturnMatchesStore ==
  \A req \in RegisterVerifyRequests :
    ReachesRegistrationVerifier(req)
      => LET userId == SessionUser(req.cookie)
             result == verifyPasskeyRegistration(req.body, req.body.challenge, userId)
         IN ~result.threw
              => /\ result.verified
                      => /\ result.credentialId # ""
                         /\ \E p \in result.passkeys :
                              /\ p.credential_id = result.credentialId
                              /\ p.user_id = userId
                 /\ ~result.verified
                      => /\ result.credentialId = ""
                         /\ result.passkeys = passkeys

\* C34 witness: with a credential already stored, one registration response
\* at hand makes verifyPasskeyRegistration return verified = true and
\* another makes it return verified = false.
C34_Witness ==
  /\ passkeys # {}
  /\ \E req \in RegisterVerifyRequests :
       /\ ReachesRegistrationVerifier(req)
       /\ LET result == verifyPasskeyRegistration(req.body, req.body.challenge,
                                                  SessionUser(req.cookie))
          IN ~result.threw /\ result.verified
  /\ \E req \in RegisterVerifyRequests :
       /\ ReachesRegistrationVerifier(req)
       /\ LET result == verifyPasskeyRegistration(req.body, req.body.challenge,
                                                  SessionUser(req.cookie))
          IN ~result.threw /\ ~result.verified

\* C35: the row register/verify stores is owned by the user of the session
\* that sent the request; the challenge row it consumes is the one stored
\* under that session's key, with that session's user; and the challenge
\* row register/options stores carries the session's user whatever username
\* the request body names.
C35_OwnerIsSessionUser ==
  /\ \A req \in RegisterVerifyRequests :
       LET out == RegisterVerifyOutcome(req)
       IN out.passkeys # passkeys
            => /\ \A p \in out.passkeys \ passkeys : p.user_id = SessionUser(req.cookie)
               /\ \E s \in sessions \ out.sessions :
                    /\ s.id = ChallengeKey(req.cookie)
                    /\ s.challenge = req.body.challenge
                    /\ s.user_id = SessionUser(req.cookie)
  /\ \A req \in RegisterOptionsRequests :
       LET out == RegisterOptionsOutcome(req)
       IN out.response.status = 200
            => \A s \in out.sessions \ sessions :
                 /\ s.id = ChallengeKey(req.cookie)
                 /\ s.user_id = SessionUser(req.cookie)
  /\ \A c \in Cookies \ {NoCookie} :
       getSession(c) # {}
         => \A s \in sessions : s.id = ChallengeKey(c) => s.user_id = SessionUser(c)

\* C35 witness: a credential has been stored by register/verify, and a
\* session's options request that names another user is answered 200.
C35_Witness ==
  /\ passkeys # {}
  /\ \E req \in RegisterOptionsRequests :
       /\ RegisterOptionsOutcome(req).response.status = 200
       /\ getUserByUsername(req.username) # {}
       /\ SessionUser(req.cookie) \notin getUserByUsername(req.username)
  /\ \E req \in RegisterVerifyRequests :
       RegisterVerifyOutcome(req).passkeys # passkeys

\* The cookie names a stored row whose expiry instant has been reached.
ExpiredSession(cookie) ==
  \E s \in sessions : s.id = cookie /\ ExpiryInstant(s.expires_at) <= now

\* The four session-protected passkey routes answer the cookie with 401 and
\* leave the credentials and the stored sessions and challenges as they were.
Rejected401(cookie) ==
  /\ \A req \in RegisterOptionsRequests :
       req.cookie = cookie
         => LET out == RegisterOptionsOutcome(req)
            IN /\ out.response.status = 401
               /\ out.passkeys = passkeys /\ out.sessions = sessions
  /\ \A req \in RegisterVerifyRequests :
       req.cookie = cookie
         => LET out == RegisterVerifyOutcome(req)
            IN /\ out.response.status = 401
               /\ out.passkeys = passkeys /\ out.sessions = sessions
  /\ \A req \in DeleteRequests :
       req.cookie = cookie
         => LET out == DeleteOutcome(req)
            IN /\ out.response.status = 401
               /\ out.passkeys = passkeys /\ out.sessions = sessions
  /\ LET out == ListOutcome(cookie)
     IN /\ out.response.status = 401
        /\ out.passkeys = passkeys /\ out.sessions = sessions

\* C36 as stated: a request to register/options, register/verify, delete or
\* list that carries no session cookie, a session id no stored row has, or the
\* id of a session whose expiry instant has been reached, is answered 401 and
\* changes neither the credentials nor the stored sessions and challenges.
C36_UnauthenticatedIsRejected ==
  \A cookie \in Cookies :
    (\/ cookie = NoCookie
     \/ ~ \E s \in sessions : s.id = cookie
     \/ ExpiredSession(cookie))
      => Rejected401(cookie)

====
